---------------------------- MODULE Spec2Model ----------------------------
(***************************************************************************)
(* SEO audit tool: the site-analysis-and-scoring pipeline.                 *)
(*                                                                         *)
(*   src/src/seo_analyzer/seo_analyzer.py   SEOAnalyzer (orchestrator and  *)
(*                                          the six analyzers)             *)
(*   src/src/reports/report_generator.py    ReportGenerator                *)
(*   src/src/app/routes.py                  the /analyze, /api/analyze     *)
(*                                          handlers                       *)
(*                                                                         *)
(* Python values are modelled as follows.  A str is a sequence of          *)
(* one-character strings.  A dict is a function whose DOMAIN is its key    *)
(* set.  An optional value (None or a value) is a sequence of length 0 or  *)
(* 1.  Times are integers in milliseconds.                                 *)
(***************************************************************************)
EXTENDS Integers, Sequences, FiniteSets, TLC

VARIABLES
    pc,             \* position of the request thread in handler / analyze_site
    request,        \* the HTTP request being handled
    http_response,  \* what the handler answered: <<>> or <<[status, ...]>>
    url,            \* the url local of the handler, argument of analyze_site
    result,         \* the result dict of analyze_site
    response,       \* the response local of analyze_site: <<>> or <<page>>
    now,            \* time.time(), in ms
    start_time,     \* the start_time local of analyze_site
    net,            \* network operations issued so far, in order
    invoked,        \* analyzers invoked so far, in order
    status_writes,  \* number of assignments to result['status'] after creation
    report,         \* the report local of the handler: <<>> or <<report>>
    pool,           \* AnalysisResults held by callers of the ReportGenerator
    reports,        \* reports returned by generate_report, in call order
    templates,      \* ReportGenerator.templates
    io,             \* the network operations of the analysis, with outcomes
    calls,          \* concurrent analyze_site calls: each one's network script
                    \* and, while another call runs, its frame of locals
    running,        \* the call whose frame the variables above hold
    monitor         \* the locals and the output of DeploymentMonitor.monitor

vars == <<pc, request, http_response, url, result, response, now, start_time,
          net, invoked, status_writes, report, pool, reports, templates, io, calls, running, monitor>>

----------------------------------------------------------------------------
(* Bounds of the model                                                     *)

MaxTitleLen == 62     \* longest stripped <title> text drawn
MaxDescLen == 162     \* longest stripped description drawn
MaxPad == 1           \* most blanks put before and after a drawn text
MaxWords == 301       \* most words in a drawn paragraph
MaxH1 == 2            \* most <h1> elements in a drawn page
MaxReports == 3       \* most generate_report calls in one behaviour
MaxSkew == 6          \* most ms a drawn load time lies off a tier boundary
MaxAnchors == 3       \* most <a> elements in a drawn page
MaxChecks == 3        \* most checks a monitor run is asked for

----------------------------------------------------------------------------
(* Python helpers                                                          *)

Get(d, k, default) == IF k \in DOMAIN d THEN d[k] ELSE default

Min(a, b) == IF a < b THEN a ELSE b

Max(a, b) == IF a > b THEN a ELSE b

Rep(c, n) == [i \in 1..n |-> c]

IsSpace(c) == c = " "

RECURSIVE LStrip(_)
LStrip(s) == IF s # <<>> /\ IsSpace(Head(s)) THEN LStrip(Tail(s)) ELSE s

RECURSIVE RStrip(_)
RStrip(s) ==
    IF s # <<>> /\ IsSpace(s[Len(s)]) THEN RStrip(SubSeq(s, 1, Len(s) - 1)) ELSE s

\* str.strip()
Strip(s) == RStrip(LStrip(s))

\* str.split(sep) for a one-character separator
RECURSIVE SplitAcc(_, _, _)
SplitAcc(s, sep, cur) ==
    IF s = <<>> THEN <<cur>>
    ELSE IF Head(s) = sep THEN <<cur>> \o SplitAcc(Tail(s), sep, <<>>)
    ELSE SplitAcc(Tail(s), sep, Append(cur, Head(s)))

Split(s, sep) == SplitAcc(s, sep, <<>>)

\* str.startswith(prefix)
StartsWith(s, prefix) ==
    Len(s) >= Len(prefix) /\ SubSeq(s, 1, Len(prefix)) = prefix

Chars(str) ==
    CASE str = "http://" -> <<"h", "t", "t", "p", ":", "/", "/">>
      [] str = "https://" -> <<"h", "t", "t", "p", "s", ":", "/", "/">>
      [] str = "url" -> <<"u", "r", "l">>

----------------------------------------------------------------------------
(* Tag Analyzer: SEOAnalyzer._analyze_meta_tags                            *)

TitleMin == 30
TitleMax == 60
DescMin == 120
DescMax == 160
KeywordsMax == 10

TitleTooShort == "Title too short (< 30)"
TitleTooLong == "Title too long (> 60)"
DescTooShort == "Description too short (< 120)"
DescTooLong == "Description too long (> 160)"
TooManyKeywords == "Too many keywords (> 10)"

\* soup.find('meta', attrs={'name': name}): the first such tag, or None
RECURSIVE FindMeta(_, _)
FindMeta(metas, name) ==
    IF metas = <<>> THEN <<>>
    ELSE IF Get(Head(metas), "name", "") = name THEN <<Head(metas)>>
    ELSE FindMeta(Tail(metas), name)

\* tag.get('content') is truthy: the attribute is there and not ''
HasContent(tag) == tag # <<>> /\ Get(tag[1], "content", <<>>) # <<>>

title_result(page) ==
    IF page.title # <<>>
    THEN LET title_text == Strip(page.title[1])
         IN [content |-> title_text,
             length |-> Len(title_text),
             optimal |-> ~(Len(title_text) < TitleMin) /\ ~(Len(title_text) > TitleMax),
             issues |-> IF Len(title_text) < TitleMin THEN <<TitleTooShort>>
                        ELSE IF Len(title_text) > TitleMax THEN <<TitleTooLong>>
                        ELSE <<>>]
    ELSE [content |-> <<>>, length |-> 0, optimal |-> FALSE, issues |-> <<>>]

description_result(page) ==
    LET desc_meta == FindMeta(page.metas, "description")
    IN IF HasContent(desc_meta)
       THEN LET desc_text == Strip(desc_meta[1].content)
            IN [content |-> desc_text,
                length |-> Len(desc_text),
                optimal |-> ~(Len(desc_text) < DescMin) /\ ~(Len(desc_text) > DescMax),
                issues |-> IF Len(desc_text) < DescMin THEN <<DescTooShort>>
                           ELSE IF Len(desc_text) > DescMax THEN <<DescTooLong>>
                           ELSE <<>>]
       ELSE [content |-> <<>>, length |-> 0, optimal |-> FALSE, issues |-> <<>>]

keywords_result(page) ==
    LET keywords_meta == FindMeta(page.metas, "keywords")
    IN IF HasContent(keywords_meta)
       THEN LET keywords == Strip(keywords_meta[1].content)
                parts == Split(keywords, ",")
                count == Cardinality({i \in DOMAIN parts : Strip(parts[i]) # <<>>})
            IN [content |-> keywords,
                count |-> count,
                issues |-> IF count > KeywordsMax THEN <<TooManyKeywords>> ELSE <<>>]
       ELSE [content |-> <<>>, count |-> 0, issues |-> <<>>]

_analyze_meta_tags(page) ==
    [title |-> title_result(page),
     description |-> description_result(page),
     keywords |-> keywords_result(page),
     viewport |-> FindMeta(page.metas, "viewport") # <<>>,
     robots |-> FindMeta(page.metas, "robots") # <<>>]

----------------------------------------------------------------------------
(* URLs: urllib.parse.urlparse on the strings the handlers build           *)

HttpScheme == Chars("http://")
HttpsScheme == Chars("https://")

RECURSIVE UpToSlash(_)
UpToSlash(s) ==
    IF s = <<>> \/ Head(s) = "/" THEN <<>> ELSE <<Head(s)>> \o UpToSlash(Tail(s))

\* urlparse(url).netloc: what follows '//' up to the next '/'; '' without '//'
Netloc(u) ==
    IF StartsWith(u, HttpsScheme) THEN UpToSlash(SubSeq(u, Len(HttpsScheme) + 1, Len(u)))
    ELSE IF StartsWith(u, HttpScheme) THEN UpToSlash(SubSeq(u, Len(HttpScheme) + 1, Len(u)))
    ELSE <<>>

\* urlparse(url).hostname: None when the netloc is empty
Hostname(u) == IF Netloc(u) = <<>> THEN <<>> ELSE <<Netloc(u)>>

----------------------------------------------------------------------------
(* Link Analyzer: SEOAnalyzer._analyze_links                               *)

\* An href is kept in parsed form: its netloc when it has one (absolute
\* link) and whether urljoin/urlparse raise ValueError on it.
Anchors(page) == SelectSeq(page.body, LAMBDA n : n.tag = "a" /\ n.href # <<>>)

\* not img.get('alt'): no alt attribute, or an empty one
NoAlt(img) == img.alt = <<>> \/ img.alt[1] = <<>>

LinkClassNeverBroken(link, base_url) ==
    LET link_domain == IF link.href[1].netloc # <<>> THEN link.href[1].netloc[1]
                       ELSE Netloc(base_url)
    IN IF link_domain = Netloc(base_url) THEN "internal_links" ELSE "external_links"

\* lines 266-277: urljoin and urlparse raise, or the netloc of the absolute
\* url is compared with the netloc of the base url
LinkClass(link, base_url) ==
    IF link.href[1].bad THEN "broken_links"
    ELSE LET link_domain == IF link.href[1].netloc # <<>> THEN link.href[1].netloc[1]
                            ELSE Netloc(base_url)
         IN IF link_domain = Netloc(base_url) THEN "internal_links" ELSE "external_links"

RECURSIVE links_loop(_, _, _)
links_loop(links, base_url, acc) ==
    IF links = <<>> THEN acc
    ELSE LET link == Head(links)
             a1 == [acc EXCEPT !.total_links = @ + 1]
             a2 == IF link.img # <<>> /\ NoAlt(link.img[1])
                   THEN [a1 EXCEPT !.links_without_alt = @ + 1] ELSE a1
             a3 == [a2 EXCEPT ![LinkClass(link, base_url)] = @ + 1]
         IN links_loop(Tail(links), base_url, a3)

_analyze_links(page, base_url) ==
    links_loop(Anchors(page), base_url,
               [internal_links |-> 0, external_links |-> 0, broken_links |-> 0,
                links_without_alt |-> 0, total_links |-> 0])

----------------------------------------------------------------------------
(* Content Analyzer: SEOAnalyzer._analyze_content                          *)

MinWords == 300

MissingH1 == "Missing H1"
MultipleH1 == "Multiple H1"
InsufficientContent == "Insufficient content (< 300 words)"

\* for script in soup(["script", "style"]): script.decompose()
Visible(body) == SelectSeq(body, LAMBDA n : n.tag \notin {"script", "style"})

RECURSIVE SumWords(_)
SumWords(nodes) ==
    IF nodes = <<>> THEN 0 ELSE Get(Head(nodes), "words", 0) + SumWords(Tail(nodes))

CountTag(nodes, tag) == Len(SelectSeq(nodes, LAMBDA n : n.tag = tag))

\* soup.find_all('img'): the <img> elements, those inside anchors included
RECURSIVE Imgs(_)
Imgs(nodes) ==
    IF nodes = <<>> THEN <<>>
    ELSE LET n == Head(nodes)
         IN (IF n.tag = "img" THEN <<n>>
             ELSE IF n.tag = "a" THEN n.img
             ELSE <<>>) \o Imgs(Tail(nodes))

\* lines 323-326
HeadingIssuesNoMultiple(h1_count) == IF h1_count = 0 THEN <<MissingH1>> ELSE <<>>

HeadingIssues(h1_count) ==
    IF h1_count = 0 THEN <<MissingH1>>
    ELSE IF h1_count > 1 THEN <<MultipleH1>>
    ELSE <<>>

\* lines 328-329
WordingIssues(word_count) ==
    IF word_count < MinWords THEN <<InsufficientContent>> ELSE <<>>

\* every word of the page text is one character long, the words are
\* joined by single blanks
_analyze_content(page) ==
    LET soup == Visible(page.body)
        word_count == SumWords(soup)
        h1_count == CountTag(soup, "h1")
        heading == HeadingIssues(h1_count)
        wording == WordingIssues(word_count)
    IN [word_count |-> word_count,
        char_count |-> Max(2 * word_count - 1, 0),
        h1_count |-> h1_count,
        h2_count |-> CountTag(soup, "h2"),
        h3_count |-> CountTag(soup, "h3"),
        img_count |-> Len(Imgs(soup)),
        img_without_alt |-> Len(SelectSeq(Imgs(soup), NoAlt)),
        issues |-> heading \o wording]

----------------------------------------------------------------------------
(* Performance Analyzer: SEOAnalyzer._analyze_performance                  *)

SlowLoad == "Load time too long (> 10 s)"
BadStatus == "Bad status code"

\* round(load_time, 2), in ms
Round2(ms) == ((ms + 5) \div 10) * 10

_analyze_performance_inclusive(load_time, status_code, size) ==
    [load_time |-> Round2(load_time),
     response_size |-> size,
     status_code |-> status_code,
     performance_score |-> IF load_time <= 2000 THEN 100
                           ELSE IF load_time <= 5000 THEN 75
                           ELSE IF load_time <= 10000 THEN 50
                           ELSE 25,
     issues |-> (IF load_time <= 10000 THEN <<>> ELSE <<SlowLoad>>)
                \o (IF status_code # 200 THEN <<BadStatus>> ELSE <<>>)]

_analyze_performance(load_time, status_code, size) ==
    [load_time |-> Round2(load_time),
     response_size |-> size,
     status_code |-> status_code,
     performance_score |-> IF load_time < 2000 THEN 100
                           ELSE IF load_time < 5000 THEN 75
                           ELSE IF load_time < 10000 THEN 50
                           ELSE 25,
     issues |-> (IF load_time < 10000 THEN <<>> ELSE <<SlowLoad>>)
                \o (IF status_code # 200 THEN <<BadStatus>> ELSE <<>>)]

----------------------------------------------------------------------------
(* Mobile Analyzer: SEOAnalyzer._analyze_mobile_friendly                   *)

NoViewport == "No viewport meta tag"
NotResponsive == "Possible mobile problems"

\* The response text is kept as the sequence of its words; str.lower()
Lower(w) == IF w = "Viewport" THEN "viewport" ELSE w

Contains(text, w) == \E i \in DOMAIN text : Lower(text[i]) = w

_analyze_mobile_friendly(text) ==
    LET viewport_meta == Contains(text, "viewport")
        responsive == Contains(text, "media=") \/ Contains(text, "@media")
    IN [viewport_meta |-> viewport_meta,
        mobile_friendly |-> responsive,
        issues |-> (IF ~viewport_meta THEN <<NoViewport>> ELSE <<>>)
                   \o (IF responsive THEN <<>> ELSE <<NotResponsive>>)]

----------------------------------------------------------------------------
(* TLS Analyzer: SEOAnalyzer._check_ssl_certificate                        *)

BadSsl == "SSL certificate invalid or missing"
BadUrl == "Bad URL"
ExcMsg == "exception"

\* dict(pairs) raises ValueError unless every item has exactly two elements
DictRaises(pairs) == \E i \in DOMAIN pairs : Len(pairs[i]) # 2

\* dict(pairs): the first element of an item is the key, the second the
\* value, a later item replacing an earlier one of the same key
RECURSIVE ToDict(_)
ToDict(pairs) ==
    IF pairs = <<>> THEN <<>>
    ELSE LET last == pairs[Len(pairs)]
         IN (last[1] :> last[2]) @@ ToDict(SubSeq(pairs, 1, Len(pairs) - 1))

\* tls is the outcome of wrap_socket/connect/getpeercert on port 443:
\* <<cert>> on success, <<>> when any of them raises.  The issuer and the
\* subject of a certificate are sequences of RDNs, each a sequence of
\* <<name, value>> pairs, and both are given to dict() as they are.
_check_ssl_certificate(u, tls) ==
    IF Hostname(u) = <<>> THEN [error |-> BadUrl]
    ELSE IF tls # <<>> /\ ~DictRaises(tls[1].issuer) /\ ~DictRaises(tls[1].subject)
    THEN [valid |-> TRUE,
          issuer |-> ToDict(tls[1].issuer),
          subject |-> ToDict(tls[1].subject),
          expires |-> tls[1].notAfter,
          issues |-> <<>>]
    ELSE [valid |-> FALSE, error |-> ExcMsg, issues |-> <<BadSsl>>]

----------------------------------------------------------------------------
(* Orchestrator: SEOAnalyzer.analyze_site, one action per blocking step    *)

Unavailable == "Site unavailable"

\* result['results'][category] = value
SetResult(res, category, value) ==
    [res EXCEPT !.results = (category :> value) @@ @]

SetErrorKeepsStatus(res, message) == [res EXCEPT !.errors = Append(@, message)]

\* lines 78-79 and 110-111: result['status'] = 'error', and the message is
\* appended to result['errors']
SetError(res, message) ==
    [res EXCEPT !.status = "error", !.errors = Append(@, message)]

\* SEOAnalyzer.__init__: timeout = 30 s, in ms
Timeout == 30000

\* session.get(url, timeout=self.timeout)
GetTimeout == <<Timeout>>

\* ssl.socket() is connected with no timeout set on it
TlsTimeout == <<>>

\* a network operation is called: it is in flight until it returns or raises
IoCall(log, op, timeout) ==
    Append(log, [op |-> op, timeout |-> timeout, pending |-> TRUE,
                 ok |-> FALSE, elapsed |-> 0, status_code |-> 0])

IoDoneStillInFlight(log, ok, elapsed, status_code) ==
    [log EXCEPT ![Len(log)] = [@ EXCEPT !.ok = ok, !.elapsed = elapsed,
                                        !.status_code = status_code]]

\* the operation in flight returns (ok) or raises, after elapsed ms
IoDone(log, ok, elapsed, status_code) ==
    [log EXCEPT ![Len(log)] = [@ EXCEPT !.pending = FALSE, !.ok = ok,
                                        !.elapsed = elapsed,
                                        !.status_code = status_code]]

\* lines 62-72: start_time and the result dict; analysis_time starts as the
\* int 0, time.time() differences are floats
analyze_site_begin ==
    /\ pc = "analyze_site"
    /\ start_time' = now
    /\ result' = [url |-> url,
                  timestamp |-> now,
                  analysis_time |-> [type |-> "int", value |-> 0],
                  status |-> "analyzing",
                  errors |-> <<>>,
                  results |-> <<>>]
    /\ invoked' = Append(invoked, "analyze_site")
    /\ pc' = "fetch"
    /\ UNCHANGED <<request, http_response, url, response, now, net,
                   status_writes, report, pool, reports, templates, io, calls, running, monitor>>

\* requests raises MissingSchema / InvalidURL (RequestExceptions) before
\* sending anything unless the url has a scheme and a host
Sendable(u) == Hostname(u) # <<>>

\* lines 76 and 130-135: the Fetcher's GET is called
fetch_call ==
    /\ pc = "fetch"
    /\ invoked' = Append(invoked, "_check_site_availability")
    /\ net' = Append(net, "GET")
    /\ io' = IoCall(io, "GET", GetTimeout)
    /\ pc' = "fetch_wait"
    /\ UNCHANGED <<request, http_response, url, result, response, now,
                   start_time, status_writes, report, pool, reports, templates, calls, running, monitor>>

\* lines 74-86 and 118-140: the Fetcher's GET succeeded
fetch_ok(page, d) ==
    /\ pc = "fetch_wait"
    /\ Sendable(url)
    /\ io' = IoDone(io, TRUE, d, 200)
    /\ now' = now + d
    /\ response' = <<page>>
    /\ result' = SetResult(result, "availability",
                           [status_code |-> 200, response_time |-> d, final_url |-> url])
    /\ pc' = "meta"
    /\ UNCHANGED <<request, http_response, url, start_time, net, invoked,
                   status_writes, report, pool, reports, templates, calls, running, monitor>>

\* lines 76-80 and 138-140: a RequestException (connection error, timeout,
\* TLS error, too many redirects, raise_for_status on 4xx/5xx) gives None,
\* and analyze_site returns from inside the try block
ReturnSkipsFinally == "returned"

\* line 80: where control goes on the return inside the try block
FetchFailedTarget == "finally"

fetch_failed(d) ==
    /\ pc = "fetch_wait"
    /\ io' = IoDone(io, FALSE, d, 0)
    /\ now' = now + d
    /\ response' = <<>>
    /\ result' = SetError(result, Unavailable)
    /\ status_writes' = status_writes + 1
    /\ pc' = FetchFailedTarget
    /\ UNCHANGED <<request, http_response, url, start_time, net, invoked,
                   report, pool, reports, templates, calls, running, monitor>>

\* lines 108-111: an exception that is not a RequestException leaves
\* _check_site_availability and is caught at the top level
fetch_raised(d) ==
    /\ pc = "fetch_wait"
    /\ io' = IoDone(io, FALSE, d, 0)
    /\ now' = now + d
    /\ response' = <<>>
    /\ result' = SetError(result, ExcMsg)
    /\ status_writes' = status_writes + 1
    /\ pc' = "finally"
    /\ UNCHANGED <<request, http_response, url, start_time, net, invoked,
                   report, pool, reports, templates, calls, running, monitor>>

\* an analyzer's try/except: the category result, or {'error': str(e)}
Guarded(raises, value) == IF raises THEN [error |-> ExcMsg] ELSE value

\* line 89
analyze_meta(raises) ==
    /\ pc = "meta"
    /\ invoked' = Append(invoked, "_analyze_meta_tags")
    /\ result' = SetResult(result, "meta", Guarded(raises, _analyze_meta_tags(response[1])))
    /\ pc' = "links"
    /\ UNCHANGED <<request, http_response, url, response, now, start_time, net,
                   status_writes, report, pool, reports, templates, io, calls, running, monitor>>

\* line 92
analyze_links(raises) ==
    /\ pc = "links"
    /\ invoked' = Append(invoked, "_analyze_links")
    /\ result' = SetResult(result, "links", Guarded(raises, _analyze_links(response[1], url)))
    /\ pc' = "content"
    /\ UNCHANGED <<request, http_response, url, response, now, start_time, net,
                   status_writes, report, pool, reports, templates, io, calls, running, monitor>>

analyze_content_unguarded(raises) ==
    /\ pc = "content"
    /\ invoked' = Append(invoked, "_analyze_content")
    /\ result' = IF raises THEN SetError(result, ExcMsg)
                 ELSE SetResult(result, "content", _analyze_content(response[1]))
    /\ status_writes' = IF raises THEN status_writes + 1 ELSE status_writes
    /\ pc' = IF raises THEN "finally" ELSE "performance"
    /\ UNCHANGED <<request, http_response, url, response, now, start_time, net,
                   report, pool, reports, templates, io, calls, running, monitor>>

\* line 95
analyze_content(raises) ==
    /\ pc = "content"
    /\ invoked' = Append(invoked, "_analyze_content")
    /\ result' = SetResult(result, "content", Guarded(raises, _analyze_content(response[1])))
    /\ pc' = "performance"
    /\ UNCHANGED <<request, http_response, url, response, now, start_time, net,
                   status_writes, report, pool, reports, templates, io, calls, running, monitor>>

\* lines 98 and 350-351: the timed GET is called
performance_call ==
    /\ pc = "performance"
    /\ invoked' = Append(invoked, "_analyze_performance")
    /\ net' = Append(net, "GET")
    /\ io' = IoCall(io, "GET", GetTimeout)
    /\ pc' = "performance_wait"
    /\ UNCHANGED <<request, http_response, url, result, response, now,
                   start_time, status_writes, report, pool, reports, templates, calls, running, monitor>>

\* lines 98 and 352-380: the timed GET returns after load_time ms, or
\* session.get raises
analyze_performance(raises, load_time, status_code, size) ==
    /\ pc = "performance_wait"
    /\ io' = IoDone(io, ~raises, load_time, IF raises THEN 0 ELSE status_code)
    /\ now' = now + load_time
    /\ result' = SetResult(result, "performance",
                           Guarded(raises, _analyze_performance(load_time, status_code, size)))
    /\ pc' = "mobile"
    /\ UNCHANGED <<request, http_response, url, response, start_time, net,
                   invoked, status_writes, report, pool, reports, templates, calls, running, monitor>>

\* lines 101 and 394: one more GET is called
mobile_call ==
    /\ pc = "mobile"
    /\ invoked' = Append(invoked, "_analyze_mobile_friendly")
    /\ net' = Append(net, "GET")
    /\ io' = IoCall(io, "GET", GetTimeout)
    /\ pc' = "mobile_wait"
    /\ UNCHANGED <<request, http_response, url, result, response, now,
                   start_time, status_writes, report, pool, reports, templates, calls, running, monitor>>

\* lines 101 and 395-416: the GET returns the text that is searched, or
\* session.get raises
analyze_mobile(raises, text, d) ==
    /\ pc = "mobile_wait"
    /\ io' = IoDone(io, ~raises, d, IF raises THEN 0 ELSE 200)
    /\ now' = now + d
    /\ result' = SetResult(result, "mobile", Guarded(raises, _analyze_mobile_friendly(text)))
    /\ pc' = "ssl"
    /\ UNCHANGED <<request, http_response, url, response, start_time, net,
                   invoked, status_writes, report, pool, reports, templates, calls, running, monitor>>

\* lines 104 and 432-440: the TLS connection to port 443 is called; without
\* a hostname the analyzer returns at once (lines 435-436 and 106)
ssl_call ==
    /\ pc = "ssl"
    /\ invoked' = Append(invoked, "_check_ssl_certificate")
    /\ IF Hostname(url) # <<>>
       THEN /\ net' = Append(net, "TLS")
            /\ io' = IoCall(io, "TLS", TlsTimeout)
            /\ pc' = "ssl_wait"
            /\ UNCHANGED <<result, status_writes>>
       ELSE /\ result' = [SetResult(result, "ssl", _check_ssl_certificate(url, <<>>))
                            EXCEPT !.status = "completed"]
            /\ status_writes' = status_writes + 1
            /\ pc' = "finally"
            /\ UNCHANGED <<net, io>>
    /\ UNCHANGED <<request, http_response, url, response, now, start_time,
                   report, pool, reports, templates, calls, running, monitor>>

\* lines 104-106 and 441-459: the TLS connection gives the certificate or
\* raises, then status = 'completed'
check_ssl(tls, d) ==
    /\ pc = "ssl_wait"
    /\ io' = IoDone(io, tls # <<>>, d, 0)
    /\ now' = now + d
    /\ result' = [SetResult(result, "ssl", _check_ssl_certificate(url, tls))
                    EXCEPT !.status = "completed"]
    /\ status_writes' = status_writes + 1
    /\ pc' = "finally"
    /\ UNCHANGED <<request, http_response, url, response, start_time, net,
                   invoked, report, pool, reports, templates, calls, running, monitor>>

\* lines 113-116: the finally block, run on every way out of the try block
analyze_site_finally ==
    /\ pc = "finally"
    /\ result' = [result EXCEPT !.analysis_time =
                                    [type |-> "float", value |-> now - start_time]]
    /\ pc' = "returned"
    /\ UNCHANGED <<request, http_response, url, response, now, start_time, net,
                   invoked, status_writes, report, pool, reports, templates, io, calls, running, monitor>>

----------------------------------------------------------------------------
(* Report Generator: ReportGenerator                                       *)

RECURSIVE Concat(_)
Concat(seqs) == IF seqs = <<>> THEN <<>> ELSE Head(seqs) \o Concat(Tail(seqs))

\* sep.join(strings), kept as the sequence of its pieces
RECURSIVE Join(_, _)
Join(strings, sep) ==
    IF Len(strings) <= 1 THEN strings
    ELSE <<Head(strings), sep>> \o Join(Tail(strings), sep)

RECURSIVE SumOver(_, _)
SumOver(f, keys) ==
    IF keys = {} THEN 0
    ELSE LET k == CHOOSE x \in keys : TRUE IN f[k] + SumOver(f, keys \ {k})

\* the values of a meta result that are dicts, in insertion order
MetaParts == <<"title", "description", "keywords">>

\* lines 61-118
_generate_summary(analysis_result) ==
    LET results == Get(analysis_result, "results", <<>>)
        meta == Get(results, "meta", <<>>)
        meta_issues ==
            Concat([i \in DOMAIN MetaParts |->
                       IF MetaParts[i] \in DOMAIN meta
                       THEN Get(meta[MetaParts[i]], "issues", <<>>) ELSE <<>>])
        counted == (IF "meta" \in DOMAIN results THEN <<meta_issues>> ELSE <<>>)
                   \o (IF "performance" \in DOMAIN results
                          /\ "issues" \in DOMAIN results.performance
                       THEN <<results.performance.issues>> ELSE <<>>)
                   \o (IF "ssl" \in DOMAIN results /\ "issues" \in DOMAIN results.ssl
                       THEN <<results.ssl.issues>> ELSE <<>>)
    IN [url |-> Get(analysis_result, "url", <<>>),
        status |-> Get(analysis_result, "status", "unknown"),
        analysis_time |-> Round2(Get(analysis_result, "analysis_time",
                                     [type |-> "int", value |-> 0]).value),
        issues_count |-> Len(Concat(counted)),
        warnings_count |-> 0,
        passed_checks |-> Len(SelectSeq(counted, LAMBDA issues : issues = <<>>)),
        failed_checks |-> Len(SelectSeq(counted, LAMBDA issues : issues # <<>>))]

\* lines 151-157 and 160-166: the title / description sub-score
SubScore(part) ==
    IF Get(part, "optimal", FALSE) THEN 100
    ELSE IF Get(part, "length", 0) > 0 THEN 50
    ELSE 0

MetaScoreOverTwo(meta) ==
    (SubScore(Get(meta, "title", <<>>)) + SubScore(Get(meta, "description", <<>>))
     + (IF Get(meta, "viewport", FALSE) THEN 100 ELSE 0)) \div 2

\* lines 146-173
MetaScore(meta) ==
    LET has_title == "title" \in DOMAIN meta
        has_desc == "description" \in DOMAIN meta
        has_viewport == Get(meta, "viewport", FALSE)
        meta_score == (IF has_title THEN SubScore(meta.title) ELSE 0)
                      + (IF has_desc THEN SubScore(meta.description) ELSE 0)
                      + (IF has_viewport THEN 100 ELSE 0)
        checks == (IF has_title THEN 1 ELSE 0) + (IF has_desc THEN 1 ELSE 0)
                  + (IF has_viewport THEN 1 ELSE 0)
    IN meta_score \div Max(checks, 1)

PerformanceScoreOfFailure(perf) ==
    IF "error" \in DOMAIN perf THEN 0
    ELSE IF "performance_score" \in DOMAIN perf THEN perf.performance_score
    ELSE 100

\* lines 176-187
PerformanceScore(perf) ==
    IF "performance_score" \in DOMAIN perf THEN perf.performance_score
    ELSE IF Get(perf, "load_time", 0) < 2000 THEN 100
    ELSE IF Get(perf, "load_time", 0) < 5000 THEN 75
    ELSE IF Get(perf, "load_time", 0) < 10000 THEN 50
    ELSE 25

\* lines 198-209
ContentScore(content) ==
    Min((IF Get(content, "word_count", 0) >= MinWords THEN 50 ELSE 0)
        + (IF Get(content, "h1_count", 0) = 1 THEN 30 ELSE 0)
        + (IF Get(content, "img_without_alt", 0) = 0 THEN 20 ELSE 0), 100)

\* lines 130-209: the scores dict before the overall score is filled in
CategoryScores(results) ==
    [meta_tags |-> IF "meta" \in DOMAIN results THEN MetaScore(results.meta) ELSE 0,
     performance |-> IF "performance" \in DOMAIN results
                     THEN PerformanceScore(results.performance) ELSE 0,
     links |-> 0,
     content |-> IF "content" \in DOMAIN results
                 THEN ContentScore(results.content) ELSE 0,
     mobile |-> IF "mobile" \in DOMAIN results
                THEN (IF Get(results.mobile, "mobile_friendly", FALSE) THEN 100 ELSE 50)
                ELSE 0,
     ssl |-> IF "ssl" \in DOMAIN results
             THEN (IF Get(results.ssl, "valid", FALSE) THEN 100 ELSE 0)
             ELSE 0,
     overall |-> 0]

OverallOfAll(scores) ==
    SumOver(scores, DOMAIN scores) \div (Cardinality(DOMAIN scores) - 1)

\* lines 211-214: valid_scores are the positive values of the whole dict
Overall(scores) ==
    LET valid_scores == {k \in DOMAIN scores : scores[k] > 0}
    IN IF valid_scores # {}
       THEN SumOver(scores, valid_scores) \div Cardinality(valid_scores)
       ELSE scores.overall

_calculate_scores_shared(analysis_result) ==
    LET results == analysis_result.results
        fresh == CategoryScores(results)
        kept == IF reports = <<>> THEN fresh
                ELSE reports[Len(reports)].report.scores
        key == [meta_tags |-> "meta", performance |-> "performance",
                links |-> "none", content |-> "content", mobile |-> "mobile",
                ssl |-> "ssl", overall |-> "none"]
        scores == [k \in DOMAIN fresh |->
                      IF key[k] \in DOMAIN results THEN fresh[k] ELSE kept[k]]
    IN [scores EXCEPT !.overall = Overall(scores)]

\* lines 120-216
_calculate_scores(analysis_result) ==
    IF "results" \notin DOMAIN analysis_result
    THEN [meta_tags |-> 0, performance |-> 0, links |-> 0, content |-> 0,
          mobile |-> 0, ssl |-> 0, overall |-> 0]
    ELSE LET scores == CategoryScores(analysis_result.results)
         IN [scores EXCEPT !.overall = Overall(scores)]

Recommendation(category, priority, title, description) ==
    [category |-> category, priority |-> priority, title |-> title,
     description |-> description]

\* lines 218-311; each recommendation's fixed solution text goes with its title
_generate_recommendations(analysis_result) ==
    IF "results" \notin DOMAIN analysis_result THEN <<>>
    ELSE
    LET results == analysis_result.results
        meta == Get(results, "meta", <<>>)
        perf == Get(results, "performance", <<>>)
        content == Get(results, "content", <<>>)
        has(part) == part \in DOMAIN meta /\ Get(meta[part], "issues", <<>>) # <<>>
    IN (IF "meta" \in DOMAIN results /\ has("title")
        THEN <<Recommendation("meta_tags", "high", "Fix the title",
                              Join(meta.title.issues, "; "))>> ELSE <<>>)
       \o (IF "meta" \in DOMAIN results /\ has("description")
           THEN <<Recommendation("meta_tags", "high", "Fix the meta description",
                                 Join(meta.description.issues, "; "))>> ELSE <<>>)
       \o (IF "meta" \in DOMAIN results /\ ~Get(meta, "viewport", FALSE)
           THEN <<Recommendation("mobile", "high", "Add a viewport meta tag",
                                 <<NoViewport>>)>> ELSE <<>>)
       \o (IF "performance" \in DOMAIN results /\ Get(perf, "load_time", 0) > 5000
           THEN <<Recommendation("performance", "high", "Improve the load time",
                                 <<".1f">>)>> ELSE <<>>)
       \o (IF "ssl" \in DOMAIN results /\ ~Get(results.ssl, "valid", FALSE)
           THEN <<Recommendation("security", "critical", "Set up an SSL certificate",
                                 <<BadSsl>>)>> ELSE <<>>)
       \o (IF "content" \in DOMAIN results /\ Get(content, "h1_count", 0) # 1
           THEN <<Recommendation("content", "medium", "Fix the heading structure",
                                 <<"H1 found", ToString(Get(content, "h1_count", 0))>>)>>
           ELSE <<>>)
       \o (IF "content" \in DOMAIN results /\ Get(content, "word_count", 0) < MinWords
           THEN <<Recommendation("content", "medium", "Add more content",
                                 <<"words found", ToString(Get(content, "word_count", 0))>>)>>
           ELSE <<>>)

\* lines 39-50; no analyze_site result makes the three helpers raise, so
\* the except branch of lines 52-59 is not taken
generate_report(analysis_result, at) ==
    [summary |-> _generate_summary(analysis_result),
     scores |-> _calculate_scores(analysis_result),
     recommendations |-> _generate_recommendations(analysis_result),
     details |-> analysis_result,
     generated_at |-> at]

----------------------------------------------------------------------------
(* Web layer: routes.py                                                    *)

UrlRequired == "URL is required"
EnterUrl == "Please enter a URL"

\* JSON values as request.get_json() returns them
JNull == [t |-> "null"]
JNum(n) == [t |-> "num", n |-> n]
JStr(chars) == [t |-> "str", s |-> chars]
JList(items) == [t |-> "list", l |-> items]
JObj(dict) == [t |-> "obj", o |-> dict]

\* bool(data)
Truthy(data) ==
    CASE data.t = "null" -> FALSE
      [] data.t = "num" -> data.n # 0
      [] data.t = "str" -> data.s # <<>>
      [] data.t = "list" -> data.l # <<>>
      [] data.t = "obj" -> DOMAIN data.o # {}

IsSubstring(sub, str) ==
    \E i \in 0..(Len(str) - Len(sub)) : SubSeq(str, i + 1, i + Len(sub)) = sub

\* 'url' in data raises TypeError on a number
InRaises(data) == data.t = "num"

HasUrlUnchecked(data) == TRUE

\* 'url' in data: a key of a dict, an item of a list, a substring of a str
HasUrl(data) ==
    CASE data.t = "obj" -> "url" \in DOMAIN data.o
      [] data.t = "list" -> \E i \in DOMAIN data.l : data.l[i] = JStr(Chars("url"))
      [] data.t = "str" -> IsSubstring(Chars("url"), data.s)
      [] OTHER -> FALSE

\* data['url'].strip() raises unless data is a dict whose 'url' is a str
UrlRaises(data) ==
    ~(data.t = "obj" /\ "url" \in DOMAIN data.o /\ data.o["url"].t = "str")

\* lines 47-49 and 87-89
Normalise(u) ==
    IF ~(StartsWith(u, HttpScheme) \/ StartsWith(u, HttpsScheme))
    THEN HttpsScheme \o u ELSE u

Respond(status, body) == <<[status |-> status, body |-> body]>>

\* a request arrives at one of the two POST routes
receive(req) ==
    /\ pc = "idle"
    /\ request' = req
    /\ pc' = req.route
    /\ UNCHANGED <<http_response, url, result, response, now, start_time, net,
                   invoked, status_writes, report, pool, reports, templates, io, calls, running, monitor>>

\* api_analyze, lines 78-85: "raise" when get_json, the membership test or
\* data['url'].strip() raises, "reject" when the url is missing, else "call"
ApiOutcome(req) ==
    IF req.malformed THEN "raise"
    ELSE IF ~Truthy(req.json) THEN "reject"
    ELSE IF InRaises(req.json) THEN "raise"
    ELSE IF ~HasUrl(req.json) THEN "reject"
    ELSE IF UrlRaises(req.json) THEN "raise"
    ELSE "call"

\* api_analyze, lines 80-83: no url in the body
api_analyze_reject ==
    /\ pc = "api_analyze"
    /\ ApiOutcome(request) = "reject"
    /\ http_response' = Respond(400, [error |-> UrlRequired])
    /\ pc' = "done"
    /\ UNCHANGED <<request, url, result, response, now, start_time, net,
                   invoked, status_writes, report, pool, reports, templates, io, calls, running, monitor>>

\* api_analyze, lines 103-108
api_analyze_raise ==
    /\ pc = "api_analyze"
    /\ ApiOutcome(request) = "raise"
    /\ http_response' = Respond(500, [success |-> FALSE, error |-> ExcMsg])
    /\ pc' = "done"
    /\ UNCHANGED <<request, url, result, response, now, start_time, net,
                   invoked, status_writes, report, pool, reports, templates, io, calls, running, monitor>>

\* api_analyze, lines 85-94: up to the call of analyze_site
api_analyze_call ==
    /\ pc = "api_analyze"
    /\ ApiOutcome(request) = "call"
    /\ url' = Normalise(Strip(request.json.o["url"].s))
    /\ pc' = "analyze_site"
    /\ UNCHANGED <<request, http_response, result, response, now, start_time,
                   net, invoked, status_writes, report, pool, reports, templates, io, calls, running, monitor>>

\* json.dumps raises TypeError on a dict key that is a tuple; the keys of
\* the issuer and subject dicts of a valid ssl result are <<name, value>>
\* pairs, every other key and value of an AnalysisResult is serialisable
JsonRaises(res) ==
    /\ "ssl" \in DOMAIN res.results
    /\ \E part \in {"issuer", "subject"} \cap DOMAIN res.results.ssl :
          DOMAIN res.results.ssl[part] # {}

\* api_analyze, lines 96-101, and lines 103-108 when jsonify raises
api_analyze_respond ==
    /\ pc = "returned" /\ request.route = "api_analyze"
    /\ http_response' =
          IF JsonRaises(result)
          THEN Respond(500, [success |-> FALSE, error |-> ExcMsg])
          ELSE Respond(200, [success |-> TRUE, url |-> url,
                             analysis |-> result,
                             timestamp |-> Get(result, "timestamp", 0)])
    /\ pc' = "done"
    /\ UNCHANGED <<request, url, result, response, now, start_time, net,
                   invoked, status_writes, report, pool, reports, templates, io, calls, running, monitor>>

\* analyze, lines 41-45: no url in the form
analyze_reject ==
    /\ pc = "analyze"
    /\ Strip(Get(request.form, "url", <<>>)) = <<>>
    /\ http_response' = Respond(302, [flash |-> EnterUrl])
    /\ pc' = "done"
    /\ UNCHANGED <<request, url, result, response, now, start_time, net,
                   invoked, status_writes, report, pool, reports, templates, io, calls, running, monitor>>

\* analyze, lines 41-54: up to the call of analyze_site
analyze_call ==
    /\ pc = "analyze"
    /\ Strip(Get(request.form, "url", <<>>)) # <<>>
    /\ url' = Normalise(Strip(Get(request.form, "url", <<>>)))
    /\ pc' = "analyze_site"
    /\ UNCHANGED <<request, http_response, result, response, now, start_time,
                   net, invoked, status_writes, report, pool, reports, templates, io, calls, running, monitor>>

\* analyze, lines 57-62: the report of the result, then the results page
analyze_respond ==
    /\ pc = "returned" /\ request.route = "analyze"
    /\ report' = <<generate_report(result, now)>>
    /\ http_response' = Respond(200, [template |-> "results.html"])
    /\ pc' = "done"
    /\ UNCHANGED <<request, url, result, response, now, start_time, net,
                   invoked, status_writes, pool, reports, templates, io, calls, running, monitor>>

----------------------------------------------------------------------------
(* Inputs: pages, network outcomes and requests                            *)

\* a text of n non-blank characters with pad blanks on either side
Text(n, pad) == Rep(" ", pad) \o Rep("x", n) \o Rep(" ", pad)

\* n comma-separated keywords
Keywords(n) == Concat([i \in 1..n |-> IF i = 1 THEN <<"x">> ELSE <<",", " ", "x">>])

Meta(name, content) == [name |-> name, content |-> content]

Para(tag, words) == [tag |-> tag, words |-> words]
Img(alt) == [tag |-> "img", alt |-> alt]
Link(netloc, bad, img) ==
    [tag |-> "a", href |-> <<[netloc |-> netloc, bad |-> bad]>>, img |-> img]

Page(title, metas, body) == [title |-> title, metas |-> metas, body |-> body]

HostA == <<"a">>
HostB == <<"b">>

SampleHeads ==
    { <<<<>>, <<>>>>,
      <<<<Text(4, 1)>>, <<>>>>,
      <<<<Text(TitleMin, 0)>>,
        <<Meta("description", Text(DescMin, 0)), Meta("viewport", Text(1, 0)),
          Meta("keywords", Keywords(2)), Meta("robots", Text(1, 0))>>>>,
      <<<<Text(TitleMax + 1, 0)>>,
        <<Meta("viewport", Text(1, 0)), Meta("description", Text(DescMax + 1, 0)),
          Meta("keywords", Keywords(KeywordsMax + 1))>>>>,
      <<<<Text(TitleMax, 0)>>, <<Meta("description", <<>>)>>>> }

SampleBodies ==
    { <<>>,
      <<Para("h1", 1), Para("p", MinWords - 1), Img(<<Text(1, 0)>>),
        Link(<<>>, FALSE, <<>>)>>,
      <<Para("h1", 1), Para("h1", 1), Para("p", 8), Para("script", MinWords),
        Img(<<>>), Link(<<HostB>>, FALSE, <<Img(<<>>)>>), Link(<<>>, TRUE, <<>>)>> }

SamplePages == {Page(h[1], h[2], b) : h \in SampleHeads, b \in SampleBodies}

\* how long a network operation other than the timed GET takes, in ms
Delays == {120}

\* load times of the timed GET, one in each tier, in ms
LoadTimes == {1999, 4999, 9999, 10000}

StatusCodes == {200, 404}

Sizes == {1024}

MobileTexts == { <<>>, <<"Viewport">>, <<"viewport", "@media">>, <<"media=">> }

\* getpeercert() of an ordinary certificate: every RDN has one attribute
Cert ==
    [issuer |-> << <<<<"countryName", "US">>>>, <<<<"organizationName", "CA">>>> >>,
     subject |-> << <<<<"commonName", "a">>>> >>,
     notAfter |-> "Jan 1 2027"]

\* a certificate with no subject whose issuer is one RDN of two attributes
PairedCert ==
    [issuer |-> << <<<<"organizationName", "CA">>, <<"commonName", "CA 1">>>> >>,
     subject |-> <<>>,
     notAfter |-> "Jan 1 2027"]

TlsOutcomes == {<<>>, <<Cert>>, <<PairedCert>>}

ApiRequest(malformed, json) ==
    [route |-> "api_analyze", malformed |-> malformed, json |-> json]

FormRequest(form) == [route |-> "analyze", form |-> form]

JsonBodies ==
    { JNull, JObj(<<>>), JObj([other |-> JNum(1)]), JNum(0), JNum(5),
      JStr(<<"x">>), JStr(<<"x">> \o Chars("url")),
      JList(<<JNum(1)>>), JList(<<JStr(Chars("url"))>>),
      JObj([url |-> JNum(5)]), JObj([url |-> JNull]),
      JObj([url |-> JStr(<<>>)]), JObj([url |-> JStr(<<" ">>)]),
      JObj([url |-> JStr(<<" ">> \o HostA \o <<" ">>)]),
      JObj([url |-> JStr(HttpScheme \o HostA), other |-> JNum(1)]) }

Forms == { <<>>, [url |-> <<>>], [url |-> <<" ", " ">>], [url |-> HostA \o <<" ">>] }

Requests ==
    {ApiRequest(FALSE, j) : j \in JsonBodies}
    \cup {ApiRequest(TRUE, JNull)}
    \cup {FormRequest(f) : f \in Forms}

----------------------------------------------------------------------------
(* The application: one request, from its arrival to the response          *)

\* ReportGenerator._load_templates, lines 313-324
_load_templates == [html_report |-> "", summary_template |-> ""]

NoRequest == [route |-> "none"]

\* no monitor runs beside the web application
NoMonitor == [pc |-> "none"]

Init ==
    /\ pc = "idle"
    /\ request = NoRequest
    /\ http_response = <<>>
    /\ url = <<>>
    /\ result = <<>>
    /\ response = <<>>
    /\ now = 0
    /\ start_time = 0
    /\ net = <<>>
    /\ invoked = <<>>
    /\ status_writes = 0
    /\ report = <<>>
    /\ pool = <<>>
    /\ reports = <<>>
    /\ templates = _load_templates
    /\ io = <<>>
    /\ calls = <<>>
    /\ running = 0
    /\ monitor = NoMonitor

Next ==
    \/ \E req \in Requests : receive(req)
    \/ api_analyze_reject
    \/ api_analyze_raise
    \/ api_analyze_call
    \/ api_analyze_respond
    \/ analyze_reject
    \/ analyze_call
    \/ analyze_respond
    \/ analyze_site_begin
    \/ fetch_call
    \/ \E page \in SamplePages, d \in Delays : fetch_ok(page, d)
    \/ \E d \in Delays : fetch_failed(d)
    \/ \E d \in Delays : fetch_raised(d)
    \/ \E raises \in BOOLEAN : analyze_meta(raises)
    \/ \E raises \in BOOLEAN : analyze_links(raises)
    \/ \E raises \in BOOLEAN : analyze_content(raises)
    \/ performance_call
    \/ \E t \in LoadTimes, c \in StatusCodes, n \in Sizes :
          analyze_performance(FALSE, t, c, n)
    \/ \E d \in Delays, c \in StatusCodes, n \in Sizes :
          analyze_performance(TRUE, d, c, n)
    \/ mobile_call
    \/ \E text \in MobileTexts, d \in Delays : analyze_mobile(FALSE, text, d)
    \/ \E d \in Delays : analyze_mobile(TRUE, <<>>, d)
    \/ ssl_call
    \/ \E tls \in TlsOutcomes, d \in Delays : check_ssl(tls, d)
    \/ analyze_site_finally

Spec == Init /\ [][Next]_vars

----------------------------------------------------------------------------
(* The analyzers on wide ranges of pages: analyze_site stands at the call  *)
(* of one analyzer, the Fetcher having returned the page                   *)

Calls ==
    <<"analyze_site", "_check_site_availability", "_analyze_meta_tags",
      "_analyze_links", "_analyze_content", "_analyze_performance",
      "_analyze_mobile_friendly", "_check_ssl_certificate">>

\* the state of analyze_site after its first n calls, on a fetched page
InitAt(at, n, page, d, res) ==
    /\ pc = at
    /\ request = FormRequest([url |-> HostA])
    /\ http_response = <<>>
    /\ url = Normalise(HostA)
    /\ result = [url |-> Normalise(HostA),
                 timestamp |-> 0,
                 analysis_time |-> [type |-> "int", value |-> 0],
                 status |-> "analyzing",
                 errors |-> <<>>,
                 results |-> res]
    /\ response = <<page>>
    /\ now = d
    /\ start_time = 0
    /\ net = <<"GET">>
    /\ invoked = SubSeq(Calls, 1, n)
    /\ status_writes = 0
    /\ report = <<>>
    /\ pool = <<>>
    /\ reports = <<>>
    /\ templates = _load_templates
    /\ io = IoDone(IoCall(<<>>, "GET", GetTimeout), TRUE, d, 200)
    /\ calls = <<>>
    /\ running = 0
    /\ monitor = NoMonitor

Availability(d) ==
    [status_code |-> 200, response_time |-> d, final_url |-> Normalise(HostA)]

\* <title>: none, or a text of up to max non-blank characters
Titles(max) == {<<>>} \cup {<<Text(n, p)>> : n \in 0..max, p \in 0..MaxPad}

\* <meta name="description">: none, one without content, or one with a text
Descriptions(max) ==
    {<<>>, <<[name |-> "description"]>>}
    \cup {<<Meta("description", Text(n, p))>> : n \in 0..max, p \in 0..MaxPad}

Viewports == {<<>>, <<Meta("viewport", Text(1, 0))>>}

MetaPages ==
    {Page(t, d \o v, <<>>) : t \in Titles(MaxTitleLen), d \in Descriptions(0), v \in Viewports}
    \cup {Page(t, v \o d, <<>>) : t \in Titles(0), d \in Descriptions(MaxDescLen), v \in Viewports}

InitMeta ==
    \E page \in MetaPages, d \in Delays :
        InitAt("meta", 2, page, d, "availability" :> Availability(d))

NextMeta == \E raises \in BOOLEAN : analyze_meta(raises)

SpecMeta == InitMeta /\ [][NextMeta]_vars

Scripts == {<<>>, <<Para("script", MinWords)>>}

ContentPages ==
    {Page(<<>>, <<>>, Rep(Para("h1", 1), h) \o s \o <<Para("p", w)>>) :
        h \in 0..MaxH1, w \in 0..MaxWords, s \in Scripts}

InitContent ==
    \E page \in ContentPages, d \in Delays :
        InitAt("content", 4, page, d,
               ("availability" :> Availability(d))
               @@ ("meta" :> _analyze_meta_tags(page))
               @@ ("links" :> _analyze_links(page, Normalise(HostA))))

NextContent == \E raises \in BOOLEAN : analyze_content(raises)

SpecContent == InitContent /\ [][NextContent]_vars

----------------------------------------------------------------------------
(* The Link Analyzer on pages of up to MaxAnchors anchors                  *)

\* hrefs: relative, absolute on the base host, absolute on another host,
\* without a netloc (mailto:), and one on which urljoin raises
Hrefs ==
    {[netloc |-> <<>>, bad |-> FALSE], [netloc |-> <<HostA>>, bad |-> FALSE],
     [netloc |-> <<HostB>>, bad |-> FALSE], [netloc |-> <<<<>>>>, bad |-> FALSE],
     [netloc |-> <<>>, bad |-> TRUE]}

\* an anchor wraps no image, one with an alt text, or one without
AnchorImgs == {<<>>, <<Img(<<Text(1, 0)>>)>>, <<Img(<<>>)>>}

AnchorNodes ==
    {[tag |-> "a", href |-> h, img |-> i] :
        h \in {<<>>} \cup {<<x>> : x \in Hrefs}, i \in AnchorImgs}

RECURSIVE SeqsUpTo(_, _)
SeqsUpTo(S, n) ==
    IF n = 0 THEN {<<>>}
    ELSE LET shorter == SeqsUpTo(S, n - 1)
         IN shorter \cup {Append(q, x) : q \in shorter, x \in S}

LinkPages == {Page(<<>>, <<>>, body) : body \in SeqsUpTo(AnchorNodes, MaxAnchors)}

InitLinks ==
    \E page \in LinkPages, d \in Delays :
        InitAt("links", 3, page, d,
               ("availability" :> Availability(d))
               @@ ("meta" :> _analyze_meta_tags(page)))

NextLinks == \E raises \in BOOLEAN : analyze_links(raises)

SpecLinks == InitLinks /\ [][NextLinks]_vars

----------------------------------------------------------------------------
(* The timed GET at and around the tier boundaries, from the call of the   *)
(* Performance Analyzer to the report of the returned result               *)

\* load times up to MaxSkew ms on either side of each tier boundary
PerfTimes ==
    {0} \cup {b + e : b \in {2000, 5000, 10000}, e \in (0 - MaxSkew)..MaxSkew}

PerfPage == Page(<<Text(TitleMin, 0)>>, <<>>, <<Para("h1", 1)>>)

InitPerf ==
    \E d \in Delays :
        InitAt("performance", 5, PerfPage, d,
               ("availability" :> Availability(d))
               @@ ("meta" :> _analyze_meta_tags(PerfPage))
               @@ ("links" :> _analyze_links(PerfPage, Normalise(HostA)))
               @@ ("content" :> _analyze_content(PerfPage)))

NextPerf ==
    \/ performance_call
    \/ \E raises \in BOOLEAN, t \in PerfTimes, c \in StatusCodes, n \in Sizes :
          analyze_performance(raises, t, c, n)
    \/ mobile_call
    \/ \E d \in Delays : analyze_mobile(FALSE, <<"viewport", "@media">>, d)
    \/ ssl_call
    \/ \E d \in Delays : check_ssl(<<Cert>>, d)
    \/ analyze_site_finally
    \/ analyze_respond

SpecPerf == InitPerf /\ [][NextPerf]_vars

----------------------------------------------------------------------------
(* Two request threads in analyze_site of the one module-level SEOAnalyzer *)
(* (routes.py line 17).  The variables pc .. io hold the locals of the     *)
(* call that runs; calls keeps the frame of a call that waits: <<frame>>,  *)
(* and <<>> for the call that runs.  What the                              *)
(* shared requests.Session makes of a request is part of the response the  *)
(* network script of the call gives.                                       *)

\* the locals of an analyze_site call, with the operations it has issued
Frame(p, u, res, resp, st, nt, inv, sw, log) ==
    [pc |-> p, url |-> u, result |-> res, response |-> resp, start_time |-> st,
     net |-> nt, invoked |-> inv, status_writes |-> sw, io |-> log]

ResultOnInstance(saved, current) == current

\* line 65: result is a local of analyze_site, so the call that resumes
\* finds the dict it created, whatever the other call did meanwhile
ResultOfCall(saved, current) == saved

\* the thread of call t is scheduled in place of the running one
switch(t) ==
    /\ t \in DOMAIN calls
    /\ t # running
    /\ calls[t].frame[1].pc # "returned"
    /\ calls' = [calls EXCEPT ![running].frame =
                                  <<Frame(pc, url, result, response, start_time,
                                          net, invoked, status_writes, io)>>,
                              ![t].frame = <<>>]
    /\ running' = t
    /\ pc' = calls[t].frame[1].pc
    /\ url' = calls[t].frame[1].url
    /\ result' = ResultOfCall(calls[t].frame[1].result, result)
    /\ response' = calls[t].frame[1].response
    /\ start_time' = calls[t].frame[1].start_time
    /\ net' = calls[t].frame[1].net
    /\ invoked' = calls[t].frame[1].invoked
    /\ status_writes' = calls[t].frame[1].status_writes
    /\ io' = calls[t].frame[1].io
    /\ UNCHANGED <<request, http_response, now, report, pool, reports, templates,
                   monitor>>

\* a page whose one link is internal for HostA and external for HostB
ConcPage == Page(<<Text(4, 0)>>, <<>>, <<Para("h1", 1), Link(<<HostA>>, FALSE, <<>>)>>)

\* what the network answers to the operations of one call on url u
ConcScripts(u) ==
    {[url |-> u, fetch |-> f, page |-> ConcPage, raises |-> FALSE,
      load_time |-> 1999, text |-> <<>>, tls |-> <<>>, d |-> 120] :
        f \in {"failed", "raised"}}
    \cup {[url |-> u, fetch |-> "ok", page |-> ConcPage, raises |-> r,
           load_time |-> 1999, text |-> <<"viewport", "@media">>, tls |-> tls,
           d |-> 120] :
            r \in BOOLEAN, tls \in TlsOutcomes}

\* routes.py lines 54 and 94: each thread calls analyze_site with its url
StartFrame(u) == Frame("analyze_site", u, <<>>, <<>>, 0, <<>>, <<>>, 0, <<>>)

InitConc ==
    \E s1 \in ConcScripts(Normalise(HostA)), s2 \in ConcScripts(Normalise(HostB)) :
        /\ calls = <<[script |-> s1, frame |-> <<>>],
                     [script |-> s2, frame |-> <<StartFrame(s2.url)>>]>>
        /\ running = 1
        /\ monitor = NoMonitor
        /\ pc = "analyze_site"
        /\ url = s1.url
        /\ result = <<>>
        /\ response = <<>>
        /\ start_time = 0
        /\ net = <<>>
        /\ invoked = <<>>
        /\ status_writes = 0
        /\ io = <<>>
        /\ request = NoRequest
        /\ http_response = <<>>
        /\ now = 0
        /\ report = <<>>
        /\ pool = <<>>
        /\ reports = <<>>
        /\ templates = _load_templates

\* the network script of the running call, when its fetch ends as f
Scripted(f) == {sc \in {calls[running].script} : sc.fetch = f}

\* the network script of the running call
Script == calls[running].script

NextConc ==
    \/ analyze_site_begin
    \/ fetch_call
    \/ \E sc \in Scripted("ok") : fetch_ok(sc.page, sc.d)
    \/ \E sc \in Scripted("failed") : fetch_failed(sc.d)
    \/ \E sc \in Scripted("raised") : fetch_raised(sc.d)
    \/ analyze_meta(Script.raises)
    \/ analyze_links(Script.raises)
    \/ analyze_content(Script.raises)
    \/ performance_call
    \/ analyze_performance(Script.raises, Script.load_time, 200, 1024)
    \/ mobile_call
    \/ analyze_mobile(Script.raises, Script.text, Script.d)
    \/ ssl_call
    \/ check_ssl(Script.tls, Script.d)
    \/ analyze_site_finally
    \/ \E t \in DOMAIN calls : switch(t)

SpecConc == InitConc /\ [][NextConc]_vars

----------------------------------------------------------------------------
(* The shared ReportGenerator, called again and again on results that      *)
(* analyze_site returned                                                   *)

\* what analyze_site returns when the fetch fails after d ms
FailedResult(d) ==
    [url |-> Normalise(HostA), timestamp |-> 0,
     analysis_time |-> [type |-> "float", value |-> d],
     status |-> "error", errors |-> <<Unavailable>>, results |-> <<>>]

\* what analyze_site returns on a page, every analyzer raising or none
CompletedResult(page, raises, load_time, text, tls, d) ==
    [url |-> Normalise(HostA), timestamp |-> 0,
     analysis_time |-> [type |-> "float", value |-> load_time + 3 * d],
     status |-> "completed", errors |-> <<>>,
     results |->
        ("availability" :> Availability(d))
        @@ ("meta" :> Guarded(raises, _analyze_meta_tags(page)))
        @@ ("links" :> Guarded(raises, _analyze_links(page, Normalise(HostA))))
        @@ ("content" :> Guarded(raises, _analyze_content(page)))
        @@ ("performance" :> Guarded(raises, _analyze_performance(load_time, 200, 1024)))
        @@ ("mobile" :> Guarded(raises, _analyze_mobile_friendly(text)))
        @@ ("ssl" :> _check_ssl_certificate(Normalise(HostA), tls))]

SampleResults ==
    {FailedResult(d) : d \in Delays}
    \cup {CompletedResult(page, raises, t, text, tls, d) :
            page \in SamplePages, raises \in BOOLEAN, t \in {1999, 10000},
            text \in {<<>>}, tls \in TlsOutcomes, d \in Delays}

Callers == {1, 2}

InitReport ==
    /\ pc = "idle"
    /\ request = NoRequest
    /\ http_response = <<>>
    /\ url = <<>>
    /\ result = <<>>
    /\ response = <<>>
    /\ now = 0
    /\ start_time = 0
    /\ net = <<>>
    /\ invoked = <<>>
    /\ status_writes = 0
    /\ report = <<>>
    /\ pool \in [Callers -> SampleResults]
    /\ reports = <<>>
    /\ templates = _load_templates
    /\ io = <<>>
    /\ calls = <<>>
    /\ running = 0
    /\ monitor = NoMonitor

\* report_generator.generate_report(pool[i]), one tick later
call_generate_report(i) ==
    /\ Len(reports) < MaxReports
    /\ now' = now + 1
    /\ reports' = Append(reports, [arg |-> i, before |-> pool[i],
                                   report |-> generate_report(pool[i], now')])
    /\ UNCHANGED <<pc, request, http_response, url, result, response,
                   start_time, net, invoked, status_writes, report, pool,
                   templates, io, calls, running, monitor>>

NextReport == \E i \in Callers : call_generate_report(i)

SpecReport == InitReport /\ [][NextReport]_vars

----------------------------------------------------------------------------
(* The deployment monitor: monitor-deployment.py, DeploymentMonitor.monitor *)
(* One action per blocking call of a check; monitor holds the locals of    *)
(* the loop and the messages printed.  Apps and deployments are as the     *)
(* platform's API gives them, with the fields the display methods read.    *)

Completed == "deployment completed successfully"
Finished == "monitoring finished"
NoAppInfo == "no application info"
Healthy == "application is healthy"
Unhealthy == "health problems"
Waiting == "waiting"

\* what check_app_status returns: <<>> for None (no token, network error,
\* status other than 200, application not found), else <<app>>
AppAnswers ==
    {<<>>}
    \cup {<<[id |-> "1", phase |-> phase, live_url |-> live_url]>> :
            phase \in {"ACTIVE", "DEPLOYING"},
            live_url \in {<<>>, <<Normalise(HostA)>>}}

\* what check_deployment_status returns: <<>> for None, else the latest
\* deployment
DeploymentAnswers ==
    {<<>>} \cup {<<[id |-> "7", phase |-> phase]>> : phase \in {"ACTIVE", "BUILDING"}}

\* what check_app_health returns: the JSON of /health on status 200, and
\* the dicts of lines 109 and 111 otherwise
HealthAnswers ==
    {[status |-> "healthy", version |-> "1.0.0"],
     [version |-> "1.0.0"],
     [status |-> "unhealthy", code |-> "503"],
     [status |-> "error", error |-> ExcMsg]}

\* lines 190-193: the condition under which the loop is left
DeploymentDone(app, deployment) ==
    /\ app.phase = "ACTIVE"
    /\ deployment # <<>>
    /\ deployment[1].phase = "ACTIVE"

\* lines 190-207, after the calls of a check: break with the success
\* message, or wait for the next check, or leave the loop after the last
EndOfCheck(m, done) ==
    IF done
    THEN [m EXCEPT !.output = @ \o <<Completed, Finished>>, !.pc = "finished"]
    ELSE IF m.check_num < m.max_checks
    THEN [m EXCEPT !.output = Append(@, Waiting), !.pc = "sleep"]
    ELSE [m EXCEPT !.output = Append(@, Finished), !.pc = "finished"]

\* lines 164-170 and 207: the header, then the first check, if any
monitor_begin ==
    /\ monitor.pc = "start"
    /\ monitor' = IF monitor.max_checks >= 1
                  THEN [monitor EXCEPT !.check_num = 1, !.pc = "check_app_status"]
                  ELSE [monitor EXCEPT !.output = Append(@, Finished),
                                       !.pc = "finished"]
    /\ UNCHANGED <<pc, request, http_response, url, result, response, now,
                   start_time, net, invoked, status_writes, report, pool,
                   reports, templates, io, calls, running>>

\* lines 173-175 and 195-196: the application is asked for
check_app_status(app) ==
    /\ monitor.pc = "check_app_status"
    /\ monitor' =
          IF app = <<>>
          THEN EndOfCheck([monitor EXCEPT !.app = <<>>, !.deployment = <<>>,
                                          !.health = <<>>,
                                          !.output = Append(@, NoAppInfo)],
                          FALSE)
          ELSE [monitor EXCEPT !.app = app, !.deployment = <<>>, !.health = <<>>,
                               !.pc = "check_deployment_status"]
    /\ UNCHANGED <<pc, request, http_response, url, result, response, now,
                   start_time, net, invoked, status_writes, report, pool,
                   reports, templates, io, calls, running>>

\* lines 178-182: the latest deployment is asked for; the health probe
\* follows for an ACTIVE application with a live_url
check_deployment_status(deployment) ==
    /\ monitor.pc = "check_deployment_status"
    /\ LET app == monitor.app[1]
           m == [monitor EXCEPT !.deployment = deployment]
       IN monitor' =
             IF app.phase = "ACTIVE" /\ app.live_url # <<>>
             THEN [m EXCEPT !.pc = "check_app_health"]
             ELSE EndOfCheck(m, DeploymentDone(app, deployment))
    /\ UNCHANGED <<pc, request, http_response, url, result, response, now,
                   start_time, net, invoked, status_writes, report, pool,
                   reports, templates, io, calls, running>>

\* lines 184-193: the /health probe and its message, then the end of the
\* check
check_app_health(health) ==
    /\ monitor.pc = "check_app_health"
    /\ LET m == [monitor EXCEPT
                    !.health = <<health>>,
                    !.output = Append(@, IF Get(health, "status", "") = "healthy"
                                         THEN Healthy ELSE Unhealthy)]
       IN monitor' = EndOfCheck(m, DeploymentDone(monitor.app[1], monitor.deployment))
    /\ UNCHANGED <<pc, request, http_response, url, result, response, now,
                   start_time, net, invoked, status_writes, report, pool,
                   reports, templates, io, calls, running>>

\* lines 165 and 202-204: time.sleep returns and the next check begins
monitor_sleep ==
    /\ monitor.pc = "sleep"
    /\ monitor' = [monitor EXCEPT !.check_num = @ + 1, !.pc = "check_app_status"]
    /\ UNCHANGED <<pc, request, http_response, url, result, response, now,
                   start_time, net, invoked, status_writes, report, pool,
                   reports, templates, io, calls, running>>

\* lines 217-222: monitor.monitor(args.max_checks)
InitMonitor ==
    \E max_checks \in 0..MaxChecks :
        /\ monitor = [pc |-> "start", max_checks |-> max_checks, check_num |-> 0,
                      app |-> <<>>, deployment |-> <<>>, health |-> <<>>,
                      output |-> <<>>]
        /\ pc = "idle"
        /\ request = NoRequest
        /\ http_response = <<>>
        /\ url = <<>>
        /\ result = <<>>
        /\ response = <<>>
        /\ now = 0
        /\ start_time = 0
        /\ net = <<>>
        /\ invoked = <<>>
        /\ status_writes = 0
        /\ report = <<>>
        /\ pool = <<>>
        /\ reports = <<>>
        /\ templates = _load_templates
        /\ io = <<>>
        /\ calls = <<>>
        /\ running = 0

NextMonitor ==
    \/ monitor_begin
    \/ \E app \in AppAnswers : check_app_status(app)
    \/ \E deployment \in DeploymentAnswers : check_deployment_status(deployment)
    \/ \E health \in HealthAnswers : check_app_health(health)
    \/ monitor_sleep

SpecMonitor == InitMonitor /\ [][NextMonitor]_vars

----------------------------------------------------------------------------
(* Properties                                                              *)

Range(seq) == {seq[i] : i \in DOMAIN seq}

Returned == pc \in {"returned", "done"} /\ invoked # <<>>

FetchFailed == Len(invoked) >= 2 /\ response = <<>> /\ pc # "fetch_wait"

Categories == {"meta", "links", "content", "performance", "mobile", "ssl"}

\* C1: when the Fetcher's GET fails, analyze_site goes straight to its
\* return with status 'error', no results and exactly one error message;
\* no analyzer is invoked and no further network call is made.
C1_FetchFailureAborts ==
    FetchFailed =>
        /\ pc \in {"finally", "returned", "done"}
        /\ invoked = SubSeq(Calls, 1, 2)
        /\ net = <<"GET">>
        /\ result.status = "error"
        /\ result.results = <<>>
        /\ Len(result.errors) = 1

C1_Witness ==
    /\ pc = "returned"
    /\ FetchFailed
    /\ result.errors = <<Unavailable>>

\* C2: when the fetch succeeds, whichever analyzers raise, all six are
\* invoked, each of the six categories has an entry in results, and the
\* returned status is 'completed' with no errors; no returned status is
\* 'analyzing', and status is assigned exactly once in a run.
C2_AnalyzersIndependent ==
    /\ (Returned /\ response # <<>>) =>
          /\ invoked = Calls
          /\ Categories \subseteq DOMAIN result.results
          /\ result.status = "completed"
          /\ result.errors = <<>>
    /\ Returned =>
          /\ result.status # "analyzing"
          /\ status_writes = 1

C2_Witness ==
    /\ pc = "returned"
    /\ result.status = "completed"
    /\ \A c \in Categories \ {"ssl"} : result.results[c] = [error |-> ExcMsg]
    /\ ~result.results.ssl.valid

\* C3: whichever way analyze_site returns, the returned analysis_time is
\* the elapsed time (a float), not the int 0 written at creation.
C3_ElapsedRecorded ==
    Returned =>
        result.analysis_time = [type |-> "float", value |-> now - start_time]

C3_Witness ==
    /\ pc = "returned"
    /\ FetchFailed
    /\ result.errors = <<Unavailable>>
    /\ result.analysis_time.type = "float"
    /\ result.analysis_time.value > 0

MetaAnalyzed == pc = "links" /\ "error" \notin DOMAIN result.results.meta

\* C4: for every page, with l the recorded title length: l < 30 gives the
\* 'too short' issue and optimal = false; 30 <= l <= 60 gives optimal = true
\* and no issue; l > 60 gives the 'too long' issue and optimal = false.
C4_TitleLaw ==
    MetaAnalyzed =>
        LET title == result.results.meta.title
        IN /\ title.length < TitleMin =>
                 TitleTooShort \in Range(title.issues) /\ ~title.optimal
           /\ (title.length >= TitleMin /\ title.length <= TitleMax) =>
                 title.optimal /\ title.issues = <<>>
           /\ title.length > TitleMax =>
                 TitleTooLong \in Range(title.issues) /\ ~title.optimal

\* C5: for every page, with l the recorded description length (0 without a
\* description): l < 120 gives a 'too short' issue and optimal = false;
\* 120 <= l <= 160 gives optimal = true and no issue; l > 160 gives a
\* 'too long' issue and optimal = false.
C5_DescriptionLaw ==
    MetaAnalyzed =>
        LET desc == result.results.meta.description
        IN /\ desc.length < DescMin =>
                 DescTooShort \in Range(desc.issues) /\ ~desc.optimal
           /\ (desc.length >= DescMin /\ desc.length <= DescMax) =>
                 desc.optimal /\ desc.issues = <<>>
           /\ desc.length > DescMax =>
                 DescTooLong \in Range(desc.issues) /\ ~desc.optimal

ContentAnalyzed == pc = "performance" /\ "error" \notin DOMAIN result.results.content

\* C6: the content issues are determined by h1_count and word_count: no
\* heading issue for one H1, exactly one for none ('missing') or several
\* ('multiple'); 'insufficient content' iff word_count < 300; nothing else.
C6_ContentIssues ==
    ContentAnalyzed =>
        LET content == result.results.content
            issues == content.issues
            headings == {i \in DOMAIN issues : issues[i] \in {MissingH1, MultipleH1}}
            wordings == {i \in DOMAIN issues : issues[i] = InsufficientContent}
        IN /\ content.h1_count = 1 => headings = {}
           /\ content.h1_count = 0 =>
                 Cardinality(headings) = 1 /\ MissingH1 \in Range(issues)
           /\ content.h1_count >= 2 =>
                 Cardinality(headings) = 1 /\ MultipleH1 \in Range(issues)
           /\ wordings # {} <=> content.word_count < 300
           /\ Cardinality(wordings) <= 1
           /\ headings \cup wordings = DOMAIN issues

C6_Witness ==
    /\ ContentAnalyzed
    /\ result.results.content.h1_count = 2
    /\ result.results.content.word_count = 300
    /\ result.results.content.issues = <<MultipleH1>>

ScoreKeys ==
    {"meta_tags", "performance", "links", "content", "mobile", "ssl", "overall"}

\* C7: every entry of the scores of a report of a returned result is an
\* integer from 0 to 100.
C7_ScoresInRange ==
    report # <<>> =>
        /\ DOMAIN report[1].scores = ScoreKeys
        /\ \A k \in ScoreKeys : report[1].scores[k] \in 0..100

C7_Witness ==
    /\ report # <<>>
    /\ result.status = "completed"
    /\ result.results.performance = [error |-> ExcMsg]
    /\ report[1].scores.meta_tags = 100
    /\ report[1].scores.ssl = 0

\* C8: overall is the floor of the mean of the strictly positive category
\* scores, and 0 when no category score is positive.
C8_OverallIsMean ==
    report # <<>> =>
        LET scores == report[1].scores
            positive == {k \in ScoreKeys \ {"overall"} : scores[k] > 0}
            n == Cardinality(positive)
            sum == SumOver(scores, positive)
        IN /\ positive = {} => scores.overall = 0
           /\ positive # {} =>
                 /\ scores.overall * n <= sum
                 /\ sum < (scores.overall + 1) * n

C8_Witness ==
    /\ report # <<>>
    /\ "ssl" \in DOMAIN result.results
    /\ report[1].scores.ssl = 0
    /\ report[1].scores.overall > 0
    /\ LET scores == report[1].scores
           positive == {k \in ScoreKeys \ {"overall"} : scores[k] > 0}
       IN SumOver(scores, positive) % Cardinality(positive) # 0

NoUrlKey(req) ==
    /\ req.route = "api_analyze"
    /\ ~req.malformed
    /\ req.json.t = "obj"
    /\ "url" \notin DOMAIN req.json.o

\* C10: POST /api/analyze with a JSON object that has no 'url' key is
\* answered with status 400 and an 'error' message, and analyze_site is
\* never invoked for it.
C10_MissingUrlRejected ==
    NoUrlKey(request) =>
        /\ pc \in {"api_analyze", "done"}
        /\ invoked = <<>>
        /\ net = <<>>
        /\ pc = "done" =>
              /\ http_response[1].status = 400
              /\ "error" \in DOMAIN http_response[1].body

C10_Witness ==
    /\ pc = "done"
    /\ NoUrlKey(request)
    /\ request.json.o # <<>>
    /\ http_response[1].status = 400

\* the request carries no url, or one that is empty once stripped
BlankUrl(req) ==
    \/ /\ req.route = "analyze"
       /\ Strip(Get(req.form, "url", <<>>)) = <<>>
    \/ /\ req.route = "api_analyze"
       /\ ~req.malformed
       /\ req.json.t = "obj"
       /\ \/ "url" \notin DOMAIN req.json.o
          \/ /\ req.json.o["url"].t = "str"
             /\ Strip(req.json.o["url"].s) = <<>>

\* C11: at both routes a request whose url is missing or empty after
\* stripping is rejected before the analysis starts: analyze_site is not
\* invoked and no network request is made for it.
C11_BlankUrlRejected ==
    BlankUrl(request) => invoked = <<>> /\ net = <<>>

\* the TLS connection of the analysis has returned or raised
TlsDone == io # <<>> /\ io[Len(io)].op = "TLS" /\ ~io[Len(io)].pending

\* C12: for a url with a hostname, a TLS connection that succeeds gives
\* valid = true and no issues, and one that raises gives valid = false and
\* the single 'invalid or missing certificate' issue; the report's ssl score
\* is 100 when ssl.valid is true and 0 otherwise.
C12_SslResult ==
    /\ TlsDone =>
          LET ssl == result.results.ssl
          IN IF io[Len(io)].ok
             THEN ssl.valid /\ ssl.issues = <<>>
             ELSE ~ssl.valid /\ ssl.issues = <<BadSsl>>
    /\ (report # <<>> /\ "ssl" \in DOMAIN result.results) =>
          report[1].scores.ssl =
              IF Get(result.results.ssl, "valid", FALSE) THEN 100 ELSE 0

\* C13: every blocking network operation of an analysis (the three GETs and
\* the TLS connection to port 443) is issued with the configured timeout;
\* none can block without one.
C13_EveryOperationTimed ==
    \A i \in DOMAIN io : io[i].timeout = <<Timeout>>

\* the categories of the claim, each with the category its recommendations carry
RecCategory ==
    [meta |-> "meta_tags", performance |-> "performance", mobile |-> "mobile",
     ssl |-> "security", content |-> "content"]

\* the category's result carries an issue in an issues list
HasIssue(results, c) ==
    IF c = "meta"
    THEN \E part \in DOMAIN results.meta \cap {"title", "description", "keywords"} :
            Get(results.meta[part], "issues", <<>>) # <<>>
    ELSE Get(results[c], "issues", <<>>) # <<>>

HasRecommendation(rep, c) ==
    \E i \in DOMAIN rep.recommendations :
        rep.recommendations[i].category = RecCategory[c]

\* C14: in the report of a returned result, a category (meta, performance,
\* mobile, ssl, content) gets a recommendation exactly when its result
\* carries an issue.
C14_RecommendationPerIssue ==
    report # <<>> =>
        \A c \in DOMAIN RecCategory \cap DOMAIN result.results :
            HasIssue(result.results, c) <=> HasRecommendation(report[1], c)

\* the issues lists of the category results present, one per category, the
\* meta lists of title, description and keywords joined
IssuesPerCategory(results) ==
    [c \in DOMAIN RecCategory \cap DOMAIN results |->
        IF c = "meta"
        THEN Concat([i \in DOMAIN MetaParts |->
                        IF MetaParts[i] \in DOMAIN results.meta
                        THEN Get(results.meta[MetaParts[i]], "issues", <<>>)
                        ELSE <<>>])
        ELSE Get(results[c], "issues", <<>>)]

RECURSIVE TotalLen(_, _)
TotalLen(f, keys) ==
    IF keys = {} THEN 0
    ELSE LET k == CHOOSE x \in keys : TRUE IN Len(f[k]) + TotalLen(f, keys \ {k})

\* C15: the summary's issues_count is the number of issues over all the
\* category results present (meta, content, performance, mobile, ssl), and
\* every category present is counted once, as passed without issues and as
\* failed with one.
C15_SummaryCountsAll ==
    report # <<>> =>
        LET per == IssuesPerCategory(result.results)
            summary == report[1].summary
        IN /\ summary.issues_count = TotalLen(per, DOMAIN per)
           /\ summary.passed_checks = Cardinality({c \in DOMAIN per : per[c] = <<>>})
           /\ summary.failed_checks = Cardinality({c \in DOMAIN per : per[c] # <<>>})

\* C16: the meta_tags score is the integer average of the title, the
\* description and the viewport sub-scores, always over all three.
C16_MetaScoreOverThree ==
    (report # <<>> /\ "meta" \in DOMAIN result.results
                   /\ "error" \notin DOMAIN result.results.meta) =>
        LET meta == result.results.meta
        IN report[1].scores.meta_tags =
               (SubScore(meta.title) + SubScore(meta.description)
                + (IF meta.viewport THEN 100 ELSE 0)) \div 3

\* the timed GET of the Performance Analyzer, the second of the analysis,
\* has returned a response
PerfMeasured == Len(io) >= 2 /\ ~io[2].pending /\ io[2].ok

\* C17: with t the measured (unrounded) load time, performance_score is 100
\* for t < 2 s, 75 for 2 <= t < 5, 50 for 5 <= t < 10 and 25 from 10 s on;
\* the issues list is non-empty exactly when t >= 10 s or the status code is
\* not 200; and the report's performance score is that performance_score.
C17_PerformanceTiers ==
    PerfMeasured =>
        LET t == io[2].elapsed
            perf == result.results.performance
        IN /\ perf.performance_score =
                 (CASE t < 2000 -> 100
                    [] t >= 2000 /\ t < 5000 -> 75
                    [] t >= 5000 /\ t < 10000 -> 50
                    [] t >= 10000 -> 25)
           /\ perf.issues # <<>> <=> (t >= 10000 \/ io[2].status_code # 200)
           /\ report # <<>> => report[1].scores.performance = perf.performance_score

C17_Witness ==
    /\ report # <<>>
    /\ PerfMeasured
    /\ io[2].elapsed = 4996
    /\ io[2].status_code = 404
    /\ result.results.performance.load_time = 5000
    /\ result.results.performance.issues = <<BadStatus>>
    /\ report[1].scores.performance = 75

\* the analyzer that issues each network operation of an analysis, in order
Issuers ==
    <<"_check_site_availability", "_analyze_performance",
      "_analyze_mobile_friendly", "_check_ssl_certificate">>

AllOps == <<"GET", "GET", "GET", "TLS">>

\* C18: the network operations of an analysis are issued one after another,
\* never two in flight: with a successful fetch exactly three GETs, by the
\* Fetcher, the Performance Analyzer and the Mobile Analyzer in this order,
\* then at most one TLS connection; with a failed fetch one GET and no TLS
\* connection.
C18_SequentialOperations ==
    /\ \A i \in DOMAIN io : io[i].pending => i = Len(io)
    /\ Len(io) <= Len(AllOps)
    /\ net = SubSeq(AllOps, 1, Len(io))
    /\ \A i \in DOMAIN io : io[i].op = AllOps[i]
    /\ (io # <<>> /\ io[Len(io)].pending) =>
          invoked[Len(invoked)] = Issuers[Len(io)]
    /\ (Returned /\ response # <<>>) =>
          /\ Len(SelectSeq(net, LAMBDA op : op = "GET")) = 3
          /\ Len(SelectSeq(net, LAMBDA op : op = "TLS")) <= 1
    /\ (Returned /\ FetchFailed) => net = <<"GET">> /\ Len(io) = 1

C18_Witness ==
    /\ pc = "returned"
    /\ response # <<>>
    /\ net = AllOps
    /\ \A i \in DOMAIN io : ~io[i].pending
    /\ io[2].elapsed > io[1].elapsed

LinksAnalyzed == pc = "content" /\ "error" \notin DOMAIN result.results.links

\* C19: every anchor with an href is counted in total_links and in exactly
\* one of internal_links, external_links and broken_links: broken when
\* resolving the href raises, internal when the resolved host is the base
\* host, external otherwise; so the three add up to total_links, and
\* links_without_alt is at most total_links.
C19_LinkCounts ==
    LinksAnalyzed =>
        LET links == result.results.links
            body == response[1].body
            hrefs == {i \in DOMAIN body : body[i].tag = "a" /\ body[i].href # <<>>}
            broken == {i \in hrefs : body[i].href[1].bad}
            internal == {i \in hrefs \ broken :
                            \/ body[i].href[1].netloc = <<>>
                            \/ body[i].href[1].netloc = <<Netloc(url)>>}
        IN /\ links.total_links = Cardinality(hrefs)
           /\ links.broken_links = Cardinality(broken)
           /\ links.internal_links = Cardinality(internal)
           /\ links.external_links = Cardinality(hrefs \ (broken \cup internal))
           /\ links.internal_links + links.external_links + links.broken_links
                 = links.total_links
           /\ links.links_without_alt <= links.total_links

C19_Witness ==
    /\ LinksAnalyzed
    /\ Len(response[1].body) = 3
    /\ result.results.links.internal_links = 1
    /\ result.results.links.external_links = 1
    /\ result.results.links.broken_links = 1
    /\ result.results.links.links_without_alt = 2

\* url, status, errors and results of the AnalysisResult that analyze_site
\* returns when it runs alone against the responses of a script
AloneResult(sc) ==
    IF sc.fetch = "failed"
    THEN [url |-> sc.url, status |-> "error", errors |-> <<Unavailable>>,
          results |-> <<>>]
    ELSE IF sc.fetch = "raised"
    THEN [url |-> sc.url, status |-> "error", errors |-> <<ExcMsg>>,
          results |-> <<>>]
    ELSE [url |-> sc.url, status |-> "completed", errors |-> <<>>,
          results |->
             [availability |-> [status_code |-> 200, response_time |-> sc.d,
                                final_url |-> sc.url],
              meta |-> Guarded(sc.raises, _analyze_meta_tags(sc.page)),
              links |-> Guarded(sc.raises, _analyze_links(sc.page, sc.url)),
              content |-> Guarded(sc.raises, _analyze_content(sc.page)),
              performance |-> Guarded(sc.raises,
                                      _analyze_performance(sc.load_time, 200, 1024)),
              mobile |-> Guarded(sc.raises, _analyze_mobile_friendly(sc.text)),
              ssl |-> _check_ssl_certificate(sc.url, sc.tls)]]

Outcome(res) ==
    [url |-> res.url, status |-> res.status, errors |-> res.errors,
     results |-> res.results]

\* the frame of call t, in the variables while it runs
FrameOf(t) ==
    IF t = running
    THEN Frame(pc, url, result, response, start_time, net, invoked,
               status_writes, io)
    ELSE calls[t].frame[1]

\* C20: however two analyze_site calls on the one SEOAnalyzer interleave,
\* each works on its own result, and each returned AnalysisResult (url,
\* status, errors, results) is the one the call gives running alone against
\* the same network responses.
C20_CallsIsolated ==
    \A t \in DOMAIN calls :
        /\ FrameOf(t).result # <<>> => FrameOf(t).result.url = calls[t].script.url
        /\ FrameOf(t).pc = "returned" =>
              Outcome(FrameOf(t).result) = AloneResult(calls[t].script)

C20_Witness ==
    /\ running = 2
    /\ pc = "returned"
    /\ FrameOf(1).pc = "returned"
    /\ \A t \in DOMAIN calls : calls[t].script.fetch = "ok" /\ ~calls[t].script.raises
    /\ result.status = "completed"
    /\ FrameOf(1).result.status = "completed"
    /\ result.results.links.external_links = 1
    /\ FrameOf(1).result.results.links.internal_links = 1
    /\ result.timestamp < FrameOf(1).result.timestamp
    /\ result.analysis_time.value > FrameOf(1).result.analysis_time.value
    /\ FrameOf(1).result.analysis_time.value
          > calls[1].script.load_time + 3 * calls[1].script.d

\* the analyzer of category c failed: its result is the error payload
Failed(c) == c \in DOMAIN result.results /\ DOMAIN result.results[c] = {"error"}

\* what the Report Generator gives a category whose result is {error}
FailedScores == [meta |-> 0, performance |-> 100, mobile |-> 50, content |-> 20]

ScoreKey == [meta |-> "meta_tags", performance |-> "performance",
             mobile |-> "mobile", content |-> "content"]

\* C21: a category whose result is the error payload is scored from field
\* defaults: meta_tags 0 and ssl 0 (ssl for any result that carries an
\* error), but performance 100, mobile 50 and content 20; the positive ones
\* count in the overall mean like measured scores.
C21_FailedCategoryScores ==
    report # <<>> =>
        LET scores == report[1].scores
            positive == {k \in ScoreKeys \ {"overall"} : scores[k] > 0}
        IN /\ \A c \in DOMAIN FailedScores :
                 Failed(c) =>
                    /\ scores[ScoreKey[c]] = FailedScores[c]
                    /\ FailedScores[c] > 0 =>
                          /\ ScoreKey[c] \in positive
                          /\ scores.overall =
                                SumOver(scores, positive) \div Cardinality(positive)
           /\ ("ssl" \in DOMAIN result.results
                  /\ "error" \in DOMAIN result.results.ssl) => scores.ssl = 0

C21_Witness ==
    /\ report # <<>>
    /\ Failed("performance") /\ Failed("mobile") /\ Failed("content")
    /\ ~Failed("meta")
    /\ "error" \in DOMAIN result.results.ssl
    /\ report[1].scores.performance = 100
    /\ report[1].scores.mobile = 50
    /\ report[1].scores.content = 20
    /\ report[1].scores.meta_tags = 0
    /\ report[1].scores.overall = 56

\* POST /api/analyze has been answered
ApiAnswered == request.route = "api_analyze" /\ pc = "done"

\* C22: POST /api/analyze answers 500 with success = false and an error
\* only when an exception escaped in the handler, and whenever analyze_site
\* returned, also with status 'error', it answers 200 with success = true,
\* the normalised url, the AnalysisResult and its timestamp.
C22_ApiAnswers ==
    ApiAnswered =>
        LET answer == http_response[1]
        IN /\ answer.status = 500 =>
                 /\ answer.body = [success |-> FALSE, error |-> ExcMsg]
                 /\ ApiOutcome(request) = "raise"
           /\ invoked # <<>> =>
                 /\ answer.status = 200
                 /\ answer.body = [success |-> TRUE, url |-> url,
                                   analysis |-> result,
                                   timestamp |-> result.timestamp]
                 /\ url = Normalise(Strip(request.json.o["url"].s))

\* monitor has left its loop
MonitorEnded == monitor.pc = "finished"

Succeeded == Completed \in Range(monitor.output)

\* C23: monitor ends with the 'deployment completed successfully' message
\* only in a check where the application is ACTIVE and its /health probe
\* answered status 'healthy'; otherwise it goes on until max_checks checks
\* have been made.
C23_SuccessOnlyWhenHealthy ==
    MonitorEnded =>
        IF Succeeded
        THEN /\ monitor.app # <<>>
             /\ monitor.app[1].phase = "ACTIVE"
             /\ monitor.health # <<>>
             /\ Get(monitor.health[1], "status", "") = "healthy"
        ELSE monitor.check_num = monitor.max_checks

=============================================================================
